---- MODULE Spec2Model ----
(***************************************************************************)
(* Model of the bit-rag service (src/src/main.py): the startup lifespan,   *)
(* the detached ingest jobs, the query handler and the <think> splitter.   *)
(* Texts are sequences of one-character strings.                           *)
(***************************************************************************)
EXTENDS Integers, Sequences, FiniteSets, Bags, TLC

\* ------------------------------------------------------------------ bounds
\* Longest raw model output of SplitSpec, counted in pieces (markers or characters).
MaxPieces == 6

\* Most paragraphs of a text of ChunkSpec.
MaxParagraphs == 3

\* ------------------------------------------------------------------ strings
Range(s) == {s[i] : i \in 1..Len(s)}

SetMin(S) == CHOOSE x \in S : \A y \in S : x <= y

SetMax(S) == CHOOSE x \in S : \A y \in S : x >= y

\* Python's None, and a present optional value.
None == << >>

Some(x) == << x >>

\* The characters str.strip() removes (those of them the modelled texts use).
IsSpace(c) == c \in {" ", "\n"}

\* The first position from i on, and the last position up to i, that holds no
\* whitespace (Len(s) + 1 and 0 when there is none).
RECURSIVE SkipSpaces(_, _)
SkipSpaces(s, i) == IF i > Len(s) \/ ~IsSpace(s[i]) THEN i ELSE SkipSpaces(s, i + 1)

RECURSIVE SkipSpacesBack(_, _)
SkipSpacesBack(s, i) == IF i < 1 \/ ~IsSpace(s[i]) THEN i ELSE SkipSpacesBack(s, i - 1)

\* str.strip(): the text between the first and the last non-whitespace character.
strip_right_only(s) == SubSeq(s, 1, SkipSpacesBack(s, Len(s)))

strip(s) == SubSeq(s, SkipSpaces(s, 1), SkipSpacesBack(s, Len(s)))

\* sep.join(parts)
RECURSIVE join(_, _)
join(sep, parts) ==
    IF parts = << >> THEN << >>
    ELSE IF Len(parts) = 1 THEN parts[1]
    ELSE parts[1] \o sep \o join(sep, Tail(parts))

NL2 == << "\n", "\n" >>

\* ------------------------------------------------------------------ _THINK_RE
OpenMarker == << "<", "t", "h", "i", "n", "k", ">" >>

CloseMarker == << "<", "/", "t", "h", "i", "n", "k", ">" >>

\* The literal m occurs in s at position i.
LiteralAt(s, m, i) ==
    /\ i >= 1
    /\ i + Len(m) - 1 <= Len(s)
    /\ \A k \in 1..Len(m) : s[i + k - 1] = m[k]

\* What "." of (.*?) may match: any character under re.DOTALL.
DotNoNewline(c) == c # "\n"

Dot(c) == TRUE

\* A match of <think>(.*?)</think> that starts at position o: the lazy group ends at
\* the first </think> that only Dot characters separate from the open marker.
\* 0 when the pattern does not match at o, else the position of the close marker.
MatchAt(s, o) ==
    IF ~LiteralAt(s, OpenMarker, o) THEN 0
    ELSE LET g  == o + Len(OpenMarker)
             Cs == {c \in g..Len(s) :
                      /\ LiteralAt(s, CloseMarker, c)
                      /\ \A k \in g..(c - 1) : Dot(s[k])}
         IN  IF Cs = {} THEN 0 ELSE SetMin(Cs)

\* re search from pos: the leftmost position at which the pattern matches, 0 if none.
SearchFrom(s, pos) ==
    LET Os == {o \in pos..Len(s) : MatchAt(s, o) # 0}
    IN  IF Os = {} THEN 0 ELSE SetMin(Os)

\* _THINK_RE.findall(raw): the groups of the non-overlapping matches, left to right.
RECURSIVE findall_from(_, _)
findall_from(s, pos) ==
    LET o == SearchFrom(s, pos)
    IN  IF o = 0 THEN << >>
        ELSE LET c == MatchAt(s, o)
             IN  << SubSeq(s, o + Len(OpenMarker), c - 1) >>
                   \o findall_from(s, c + Len(CloseMarker))

findall(s) == findall_from(s, 1)

\* _THINK_RE.sub("", raw): raw with every match removed.
RECURSIVE sub_from(_, _)
sub_from(s, pos) ==
    LET o == SearchFrom(s, pos)
    IN  IF o = 0 THEN SubSeq(s, pos, Len(s))
        ELSE SubSeq(s, pos, o - 1) \o sub_from(s, MatchAt(s, o) + Len(CloseMarker))

sub_empty(s) == sub_from(s, 1)

\* _split_thinking(raw) -> (answer, thinking)
_split_thinking(raw) ==
    LET parts == findall(raw)
    IN  IF parts = << >>
        THEN [answer |-> strip(raw), thinking |-> None]
        ELSE [answer   |-> strip(sub_empty(raw)),
              thinking |-> Some(join(NL2, [i \in 1..Len(parts) |-> strip(parts[i])]))]

\* ------------------------------------------------------------------ chunking
\* CharacterTextSplitter(chunk_size=500, chunk_overlap=50), separator "\n\n".
chunk_size == 500

chunk_overlap == 50

\* retriever search_kwargs {"k": 3}
k == 3

\* n copies of the character c
Rep(c, n) == [i \in 1..n |-> c]

\* re.split("\n\n", text): the pieces between the non-overlapping separators.
RECURSIVE re_split(_)
re_split(s) ==
    LET P == {i \in 1..(Len(s) - 1) : s[i] = "\n" /\ s[i + 1] = "\n"}
    IN  IF P = {} THEN << s >>
        ELSE << SubSeq(s, 1, SetMin(P) - 1) >> \o re_split(SubSeq(s, SetMin(P) + 2, Len(s)))

\* _join_docs: the joined, stripped text; nothing when it is empty.
join_docs(cur) ==
    LET t == strip(join(NL2, cur))
    IN  IF t = << >> THEN << >> ELSE << t >>

SepLen(n) == IF n > 0 THEN Len(NL2) ELSE 0

\* the "keep on popping" loop of _merge_splits
RECURSIVE pop_while(_, _, _)
pop_while(cur, total, len) ==
    IF \/ total > chunk_overlap
       \/ (total + len + SepLen(Len(cur)) > chunk_size /\ total > 0)
    THEN pop_while(Tail(cur), total - (Len(cur[1]) + SepLen(Len(cur) - 1)), len)
    ELSE [cur |-> cur, total |-> total]

\* _merge_splits: the loop over the splits, then the last document.
RECURSIVE merge_splits(_, _, _, _)
merge_splits(splits, docs, cur, total) ==
    IF splits = << >> THEN docs \o join_docs(cur)
    ELSE LET d   == Head(splits)
             len == Len(d)
         IN  IF total + len + SepLen(Len(cur)) > chunk_size /\ Len(cur) > 0
             THEN LET st == pop_while(cur, total, len)
                  IN  merge_splits(Tail(splits), docs \o join_docs(cur), Append(st.cur, d),
                                   st.total + len + SepLen(Len(st.cur)))
             ELSE merge_splits(Tail(splits), docs, Append(cur, d),
                               total + len + SepLen(Len(cur)))

\* text_splitter.split_text(text): the non-empty splits, merged.
split_text(text) ==
    merge_splits(SelectSeq(re_split(text), LAMBDA x : x # << >>), << >>, << >>, 0)

\* [Document(page_content=x) for x in split_text(text)]: one passage per chunk, in order.
Documents_first_only(text) ==
    LET cs == split_text(text) IN IF cs = << >> THEN << >> ELSE << cs[1] >>

Documents(text) == split_text(text)

\* ------------------------------------------------------------------ the Index
BagOfSeq(s) == [x \in Range(s) |-> Cardinality({i \in 1..Len(s) : s[i] = x})]

\* vectorstore.add_documents(docs): every passage is stored under a fresh id.
add_documents_replace(idx, docs) == BagOfSeq(docs)

add_documents(idx, docs) == idx (+) BagOfSeq(docs)

\* The embedding of a text, and the relevance of a passage to a question
\* (the embedding model's part, here the overlap of the character sets, in percent).
Embed(t) == Range(t)

Score(q, p) ==
    IF Embed(q) \cup Embed(p) = {} THEN 0
    ELSE (100 * Cardinality(Embed(q) \cap Embed(p))) \div Cardinality(Embed(q) \cup Embed(p))

\* retriever(question): the k most relevant passages, most relevant first.
RECURSIVE top(_, _, _)
top(idx, q, n) ==
    IF n = 0 \/ BagToSet(idx) = {} THEN << >>
    ELSE LET S    == BagToSet(idx)
             best == CHOOSE p \in S : \A r \in S : Score(q, p) >= Score(q, r)
         IN  << best >> \o top(idx (-) SetToBag({best}), q, n - 1)

\* The retriever as it would be with the nearest passage dropped (an off-by-one slice).
retrieve_skip_nearest(idx, q) ==
    LET r == top(idx, q, k + 1) IN IF r = << >> THEN << >> ELSE Tail(r)

retrieve(idx, q) == top(idx, q, k)

\* The passages of docs without the repeats of an earlier one.
RECURSIVE Distinct(_)
Distinct(docs) ==
    IF docs = << >> THEN << >>
    ELSE LET init == Distinct(SubSeq(docs, 1, Len(docs) - 1))
             last == docs[Len(docs)]
         IN  IF \E i \in 1..Len(init) : init[i] = last THEN init ELSE Append(init, last)

_format_docs_dedup(docs) == join(NL2, Distinct(docs))

\* _format_docs(docs)
_format_docs(docs) == join(NL2, docs)

\* ------------------------------------------------------------------ state
VARIABLES
    lifespan_pc,  \* lifespan(): "start", "vs" (vectorstore assigned), "serving", "failed"
    vectorstore,  \* the global vectorstore: None or Some("Chroma")
    qa_chain,     \* the global qa_chain: None or Some("chain")
    index,        \* the passages of the Chroma collection, a bag of contents
    ingests,      \* the ingest requests: handler position, response, and the bytes
                  \* of the uploaded file (content) of a file request
    jobs,         \* the background tasks process_ingest(text) of the ingest requests:
                  \* position, text, whether the Index was there at the check (ready),
                  \* the add_documents calls made and the exception that left the task
    queries,      \* the query requests: position in query_rag, response, and what
                  \* happened on the way: whether Index and chain were there at arrival
                  \* (ready), the jobs done by then (seen), the Index as retrieval saw
                  \* it (snap), the passages retrieved (docs), the context made of
                  \* them, the prompt values the model was invoked with, the calls made
    out,          \* what the process printed
    pieces,       \* SplitSpec: the raw model output, as markers ("O", "C") and characters
    raw,          \* SplitSpec: the same output as the characters _split_thinking receives
    split,        \* SplitSpec: None, or Some(the pair _split_thinking returned)
    paragraphs,   \* ChunkSpec: the paragraphs of the text to ingest, by kind
    source_text,  \* ChunkSpec: the text, its paragraphs joined by blank lines
    chunks        \* ChunkSpec: None, or Some(the passages process_ingest makes of text)

svars == << lifespan_pc, vectorstore, qa_chain, index, ingests, jobs, queries, out >>

pvars == << pieces, raw, split >>

cvars == << paragraphs, source_text, chunks >>

vars == << svars, pvars, cvars >>

\* ------------------------------------------------------------------ inputs
\* Requests the model follows, ingest and query requests together.
MaxRequests == 2

IngestIds == 1..MaxRequests

QueryIds == 1..MaxRequests

\* Request texts: empty, one short paragraph, and five paragraphs that make four
\* chunks, the first two of them overlapping, the last two of them equal.
InputTexts ==
    { << >>,
      << "a", "b" >>,
      Rep("a", 240) \o NL2 \o Rep("b", 40) \o NL2 \o Rep("c", 260) \o NL2
          \o Rep("c", 251) \o NL2 \o Rep("c", 251) }

\* Uploaded files, as bytes: "a\n\nb", and one byte that is not UTF-8.
FileContents == { << 97, 195, 169, 10, 10, 98 >>, << 97, 255 >>, << 97, 195 >> }

Questions == { << "a" >>, << "c" >> }

\* What the language model may return.
ModelOutputs ==
    { << "a", "b", "\n" >>,
      OpenMarker \o << "a" >> \o CloseMarker \o << " ", "b" >> }

\* What the chain may raise: ollama.ResponseError(error, status_code),
\* ConnectionError, or any other exception.
Exceptions ==
    { [type |-> "ResponseError", status_code |-> 404, error |-> "model not found"],
      [type |-> "ResponseError", status_code |-> 500, error |-> "internal error"],
      [type |-> "ConnectionError", status_code |-> 0, error |-> ""],
      [type |-> "Exception", status_code |-> 0, error |-> ""] }

\* An exception that carries nothing the handlers read.
Raised(type) == [type |-> type, status_code |-> 0, error |-> ""]

\* The character of a code point, one element of a text.
Chr(cp) == CASE cp = 10 -> "\n" [] cp = 32 -> " " [] cp = 97 -> "a" [] cp = 98 -> "b"
             [] cp = 99 -> "c" [] cp = 233 -> "U+00E9" [] OTHER -> "?"

\* UTF-8: a continuation byte of content at i, within lo..hi.
Continuation(content, i, lo, hi) ==
    i <= Len(content) /\ content[i] >= lo /\ content[i] <= hi

\* The number of bytes of the well-formed sequence that starts at i, 0 when none does.
Width(content, i) ==
    LET b == content[i]
        c(j) == Continuation(content, i + j, 128, 191)
    IN  IF b < 128 THEN 1
        ELSE IF b >= 194 /\ b <= 223 THEN (IF c(1) THEN 2 ELSE 0)
        ELSE IF b = 224 THEN (IF Continuation(content, i + 1, 160, 191) /\ c(2) THEN 3 ELSE 0)
        ELSE IF b = 237 THEN (IF Continuation(content, i + 1, 128, 159) /\ c(2) THEN 3 ELSE 0)
        ELSE IF b >= 225 /\ b <= 239 THEN (IF c(1) /\ c(2) THEN 3 ELSE 0)
        ELSE IF b = 240
             THEN (IF Continuation(content, i + 1, 144, 191) /\ c(2) /\ c(3) THEN 4 ELSE 0)
        ELSE IF b = 244
             THEN (IF Continuation(content, i + 1, 128, 143) /\ c(2) /\ c(3) THEN 4 ELSE 0)
        ELSE IF b >= 241 /\ b <= 243 THEN (IF c(1) /\ c(2) /\ c(3) THEN 4 ELSE 0)
        ELSE 0

\* The code point of the well-formed sequence of w bytes that starts at i.
CodePoint(content, i, w) ==
    LET b == content[i]
        t(j) == content[i + j] - 128
    IN  CASE w = 1 -> b
          [] w = 2 -> (b - 192) * 64 + t(1)
          [] w = 3 -> ((b - 224) * 64 + t(1)) * 64 + t(2)
          [] w = 4 -> (((b - 240) * 64 + t(1)) * 64 + t(2)) * 64 + t(3)

\* Whether content from i on is well-formed UTF-8, and the characters it encodes.
RECURSIVE WellFormed(_, _)
WellFormed(content, i) ==
    IF i > Len(content) THEN TRUE
    ELSE Width(content, i) > 0 /\ WellFormed(content, i + Width(content, i))

RECURSIVE Characters(_, _)
Characters(content, i) ==
    IF i > Len(content) THEN << >>
    ELSE << Chr(CodePoint(content, i, Width(content, i))) >>
             \o Characters(content, i + Width(content, i))

\* content.decode("utf-8", errors="replace"), which never raises
decode_utf8_replace(content) ==
    Some([i \in 1..Len(content) |-> IF content[i] < 128 THEN Chr(content[i]) ELSE "?"])

\* content.decode("utf-8"): None when it raises UnicodeDecodeError
decode_utf8(content) ==
    IF WellFormed(content, 1) THEN Some(Characters(content, 1)) ELSE None

\* ------------------------------------------------------------------ responses
Accepted == [status_code |-> 200, status |-> "accepted"]

BadFile == [status_code |-> 400, status |-> "File must be UTF-8 encoded text."]

HTTPException(code, detail) ==
    [status_code |-> code, detail |-> detail, answer |-> None, thinking |-> None]

QueryResponse(answer, thinking) ==
    [status_code |-> 200, detail |-> "", answer |-> Some(answer), thinking |-> thinking]

NotReadyDetail == "DB is not ready."

UnreachableDetail == "Cannot connect to Ollama. Make sure it is running."

\* query_rag's check before it invokes the chain
NotReady_false(vs, chain) == FALSE

NotReady(vs, chain) == chain = None

\* query_rag's except clauses; any other exception leaves the handler and the
\* server answers 500.
on_exception_all_502(e) ==
    IF e.type = "ResponseError" THEN HTTPException(502, e.error)
    ELSE IF e.type = "ConnectionError" THEN HTTPException(503, UnreachableDetail)
    ELSE HTTPException(500, "Internal Server Error")

on_exception(e) ==
    IF e.type = "ResponseError"
    THEN HTTPException(IF e.status_code = 404 THEN 404 ELSE 502, e.error)
    ELSE IF e.type = "ConnectionError" THEN HTTPException(503, UnreachableDetail)
    ELSE HTTPException(500, "Internal Server Error")

\* process_ingest's check of the global vectorstore
SkipIngest_never(vs) == FALSE

SkipIngest(vs) == vs = None

\* A background task added with add_task runs once its request's response is sent.
TaskMayStart_at_once(i) == ingests[i].pc \in {"returned", "responded"}

TaskMayStart(i) == ingests[i].pc = "responded"

\* ------------------------------------------------------------------ Init
IdleIngest == [pc |-> "idle", kind |-> "", content |-> None, resp |-> None]

NoJob == [pc |-> "none", text |-> << >>, ready |-> TRUE, calls |-> << >>, exc |-> None]

IdleQuery ==
    [pc |-> "idle", question |-> << >>, ready |-> TRUE, seen |-> {}, snap |-> EmptyBag,
     docs |-> << >>, context |-> None, prompt |-> None, nsearch |-> 0, nllm |-> 0,
     fail |-> None, resp |-> None]

ServiceInit ==
    /\ lifespan_pc = "start"
    /\ vectorstore = None
    /\ qa_chain = None
    /\ index = EmptyBag
    /\ ingests = [i \in IngestIds |-> IdleIngest]
    /\ jobs = [i \in IngestIds |-> NoJob]
    /\ queries = [q \in QueryIds |-> IdleQuery]
    /\ out = << >>

NoSplit ==
    /\ pieces = << >>
    /\ raw = << >>
    /\ split = None

NoChunks ==
    /\ paragraphs = << >>
    /\ source_text = << >>
    /\ chunks = None

Init ==
    /\ ServiceInit
    /\ NoSplit
    /\ NoChunks

\* ------------------------------------------------------------------ lifespan
\* What lifespan's assignments leave in the globals (global vectorstore, qa_chain).
assigned_vectorstore_local == None

assigned_vectorstore == Some("Chroma")

assigned_qa_chain_local == None

assigned_qa_chain == Some("chain")

\* vectorstore = Chroma(...)
lifespan_vectorstore ==
    /\ lifespan_pc = "start"
    /\ vectorstore' = assigned_vectorstore
    /\ lifespan_pc' = "vs"
    /\ UNCHANGED << qa_chain, index, ingests, jobs, queries, out, pvars, cvars >>

\* qa_chain = ... ; print("VectorDB & QA Chain loaded."); yield
lifespan_chain ==
    /\ lifespan_pc = "vs"
    /\ qa_chain' = assigned_qa_chain
    /\ out' = Append(out, [job |-> 0, msg |-> "VectorDB & QA Chain loaded.", n |-> 0])
    /\ lifespan_pc' = "serving"
    /\ UNCHANGED << vectorstore, index, ingests, jobs, queries, pvars, cvars >>

\* Chroma(...) or OllamaLLM(...) raises: startup ends without the later assignments.
lifespan_raise ==
    /\ lifespan_pc \in {"start", "vs"}
    /\ lifespan_pc' = "failed"
    /\ UNCHANGED << vectorstore, qa_chain, index, ingests, jobs, queries, out, pvars, cvars >>

\* ------------------------------------------------------------------ ingest
\* The requests that have arrived so far.
Arrived ==
    Cardinality({i \in IngestIds : ingests[i].pc # "idle"})
        + Cardinality({q \in QueryIds : queries[q].pc # "idle"})

\* Requests of a kind arrive in the order of their ids, MaxRequests of them in all.
MayArrive(reqs, i) ==
    /\ Arrived < MaxRequests
    /\ reqs[i].pc = "idle"
    /\ IF i = 1 THEN TRUE ELSE reqs[i - 1].pc # "idle"

\* POST /ingest: add_task(process_ingest, request.text); return accepted
ingest_data(i, text) ==
    /\ MayArrive(ingests, i)
    /\ jobs' = [jobs EXCEPT ![i] = [NoJob EXCEPT !.pc = "queued", !.text = text]]
    /\ ingests' = [ingests EXCEPT ![i] =
                     [pc |-> "returned", kind |-> "json", content |-> None,
                      resp |-> Some(Accepted)]]
    /\ UNCHANGED << lifespan_pc, vectorstore, qa_chain, index, queries, out, pvars, cvars >>

\* POST /ingest/file: decode the content, 400 when it is not UTF-8, else as /ingest
ingest_file(i, content) ==
    /\ MayArrive(ingests, i)
    /\ LET text == decode_utf8(content)
       IN  IF text = None
           THEN /\ ingests' = [ingests EXCEPT ![i] =
                                 [pc |-> "returned", kind |-> "file",
                                  content |-> Some(content), resp |-> Some(BadFile)]]
                /\ UNCHANGED jobs
           ELSE /\ jobs' = [jobs EXCEPT ![i] =
                              [NoJob EXCEPT !.pc = "queued", !.text = text[1]]]
                /\ ingests' = [ingests EXCEPT ![i] =
                                 [pc |-> "returned", kind |-> "file",
                                  content |-> Some(content), resp |-> Some(Accepted)]]
    /\ UNCHANGED << lifespan_pc, vectorstore, qa_chain, index, queries, out, pvars, cvars >>

\* The server sends the handler's response.
send_response(i) ==
    /\ ingests[i].pc = "returned"
    /\ ingests' = [ingests EXCEPT ![i].pc = "responded"]
    /\ UNCHANGED << lifespan_pc, vectorstore, qa_chain, index, jobs, queries, out, pvars, cvars >>

\* process_ingest, up to the check of the global: print the skip and return, or go on.
process_ingest_check(i) ==
    /\ jobs[i].pc = "queued"
    /\ TaskMayStart(i)
    /\ IF SkipIngest(vectorstore)
       THEN /\ out' = Append(out, [job |-> i, n |-> 0,
                                   msg |-> "Ingest skipped: vectorstore is not initialized."])
            /\ jobs' = [jobs EXCEPT ![i].pc = "skipped", ![i].ready = (vectorstore # None)]
       ELSE /\ jobs' = [jobs EXCEPT ![i].pc = "running", ![i].ready = (vectorstore # None)]
            /\ UNCHANGED out
    /\ UNCHANGED << lifespan_pc, vectorstore, qa_chain, index, ingests, queries, pvars, cvars >>

\* process_ingest, the rest: split, add_documents(docs), print the count.
process_ingest_add(i) ==
    /\ jobs[i].pc = "running"
    /\ LET docs == Documents(jobs[i].text)
       IN  IF vectorstore = None
           THEN \* None has no add_documents
                /\ jobs' = [jobs EXCEPT ![i].pc = "raised",
                                        ![i].exc = Some("AttributeError")]
                /\ UNCHANGED << index, out >>
           ELSE /\ index' = add_documents(index, docs)
                /\ jobs' = [jobs EXCEPT ![i].pc = "done",
                                        ![i].calls = Append(@, [docs |-> docs, ok |-> TRUE])]
                /\ out' = Append(out, [job |-> i, n |-> Len(docs),
                                       msg |-> "Background Ingest: chunks added."])
    /\ UNCHANGED << lifespan_pc, vectorstore, qa_chain, ingests, queries, pvars, cvars >>

\* What process_ingest does when add_documents raises: the exception leaves the task.
after_raise_swallow(job, docs, e) ==
    [job EXCEPT !.pc = "done", !.calls = Append(@, [docs |-> docs, ok |-> FALSE])]

after_raise(job, docs, e) ==
    [job EXCEPT !.pc = "raised", !.exc = Some(e),
                !.calls = Append(@, [docs |-> docs, ok |-> FALSE])]

\* process_ingest, the rest, when embedding or the upsert fails.
process_ingest_raise(i) ==
    /\ jobs[i].pc = "running"
    /\ vectorstore # None
    /\ jobs' = [jobs EXCEPT ![i] = after_raise(jobs[i], Documents(jobs[i].text), "UpsertError")]
    /\ UNCHANGED << lifespan_pc, vectorstore, qa_chain, index, ingests, queries, out, pvars, cvars >>

\* ------------------------------------------------------------------ query
DoneJobs == {i \in IngestIds : jobs[i].pc = "done"}

\* POST /query: 503 when not ready, else the chain is invoked.
query_rag(q, question) ==
    /\ MayArrive(queries, q)
    /\ LET arrived == [IdleQuery EXCEPT !.question = question, !.seen = DoneJobs,
                           !.ready = (vectorstore # None /\ qa_chain # None)]
       IN  IF NotReady(vectorstore, qa_chain)
           THEN queries' = [queries EXCEPT ![q] =
                    [arrived EXCEPT !.pc = "done", !.fail = Some(Raised("NotReady")),
                                    !.resp = Some(HTTPException(503, NotReadyDetail))]]
           ELSE IF qa_chain = None
           THEN \* None has no ainvoke: the AttributeError leaves the handler
                queries' = [queries EXCEPT ![q] =
                    [arrived EXCEPT !.pc = "done", !.fail = Some(Raised("AttributeError")),
                                    !.resp = Some(HTTPException(500, "Internal Server Error"))]]
           ELSE queries' = [queries EXCEPT ![q] = [arrived EXCEPT !.pc = "invoked"]]
    /\ UNCHANGED << lifespan_pc, vectorstore, qa_chain, index, ingests, jobs, out, pvars, cvars >>

\* The Index after a search of it: a search stores nothing.
searched_and_stored(idx, question) == idx (+) SetToBag({question})

searched(idx, question) == idx

\* The query after "context": itemgetter("question") | retriever | _format_docs:
\* whatever was retrieved, none too, is formatted and goes on to the prompt.
after_retrieve_none_found(qr, idx) ==
    LET docs == retrieve(idx, qr.question)
    IN  IF docs = << >>
        THEN [qr EXCEPT !.pc = "done", !.nsearch = @ + 1, !.snap = idx,
                        !.resp = Some(HTTPException(404, "No relevant passages."))]
        ELSE [qr EXCEPT !.pc = "retrieved", !.nsearch = @ + 1, !.snap = idx, !.docs = docs,
                        !.context = Some(_format_docs(docs))]

after_retrieve(qr, idx) ==
    LET docs == retrieve(idx, qr.question)
    IN  [qr EXCEPT !.pc = "retrieved", !.nsearch = @ + 1, !.snap = idx, !.docs = docs,
                   !.context = Some(_format_docs(docs))]

\* The chain's retrieval step: the k nearest passages of the Index as it is now.
chain_retrieve(q) ==
    /\ queries[q].pc = "invoked"
    /\ queries' = [queries EXCEPT ![q] = after_retrieve(queries[q], index)]
    /\ index' = searched(index, queries[q].question)
    /\ UNCHANGED << lifespan_pc, vectorstore, qa_chain, ingests, jobs, out, pvars, cvars >>

\* The chain's retrieval step raises (the embedding of the question fails).
chain_retrieve_raise(q, e) ==
    /\ queries[q].pc = "invoked"
    /\ queries' = [queries EXCEPT ![q].pc = "done",
                                  ![q].nsearch = @ + 1,
                                  ![q].fail = Some(e),
                                  ![q].resp = Some(on_exception(e))]
    /\ UNCHANGED << lifespan_pc, vectorstore, qa_chain, index, ingests, jobs, out, pvars, cvars >>

\* The values the prompt template is filled with.
PromptValues(qr) == [context |-> qr.context[1], question |-> qr.question]

\* The chain's model step returns; _split_thinking(raw); the QueryResponse.
chain_generate(q, output) ==
    /\ queries[q].pc = "retrieved"
    /\ LET r == _split_thinking(output)
       IN  queries' = [queries EXCEPT ![q].pc = "done",
                                      ![q].nllm = @ + 1,
                                      ![q].prompt = Some(PromptValues(queries[q])),
                                      ![q].resp = Some(QueryResponse(r.answer, r.thinking))]
    /\ UNCHANGED << lifespan_pc, vectorstore, qa_chain, index, ingests, jobs, out, pvars, cvars >>

\* The query after its model call raised e: the except clauses answer, once.
after_generate_raise_retry(qr, e) ==
    [qr EXCEPT !.nllm = @ + 1, !.prompt = Some(PromptValues(qr))]

after_generate_raise(qr, e) ==
    [qr EXCEPT !.pc = "done", !.nllm = @ + 1, !.prompt = Some(PromptValues(qr)),
               !.fail = Some(e), !.resp = Some(on_exception(e))]

\* The chain's model step raises.
chain_generate_raise(q, e) ==
    /\ queries[q].pc = "retrieved"
    /\ queries' = [queries EXCEPT ![q] = after_generate_raise(queries[q], e)]
    /\ UNCHANGED << lifespan_pc, vectorstore, qa_chain, index, ingests, jobs, out, pvars, cvars >>

\* ------------------------------------------------------------------ Spec
Next ==
    \/ lifespan_vectorstore
    \/ lifespan_chain
    \/ lifespan_raise
    \/ \E i \in IngestIds, text \in InputTexts : ingest_data(i, text)
    \/ \E i \in IngestIds, content \in FileContents : ingest_file(i, content)
    \/ \E i \in IngestIds : send_response(i)
    \/ \E i \in IngestIds : process_ingest_check(i)
    \/ \E i \in IngestIds : process_ingest_add(i)
    \/ \E i \in IngestIds : process_ingest_raise(i)
    \/ \E q \in QueryIds, question \in Questions : query_rag(q, question)
    \/ \E q \in QueryIds : chain_retrieve(q)
    \/ \E q \in QueryIds, e \in Exceptions : chain_retrieve_raise(q, e)
    \/ \E q \in QueryIds, output \in ModelOutputs : chain_generate(q, output)
    \/ \E q \in QueryIds, e \in Exceptions : chain_generate_raise(q, e)

Spec == Init /\ [][Next]_vars

\* ------------------------------------------------------------------ SplitSpec
Piece == {"O", "C", "a", "b", "\n", "<"}

Spell(p) == IF p = "O" THEN OpenMarker ELSE IF p = "C" THEN CloseMarker ELSE << p >>

RECURSIVE Flatten(_)
Flatten(ps) == IF ps = << >> THEN << >> ELSE Spell(ps[1]) \o Flatten(Tail(ps))

RawPieces == UNION {[1..n -> Piece] : n \in 0..MaxPieces}

SplitInit ==
    /\ ServiceInit
    /\ pieces \in RawPieces
    /\ raw = Flatten(pieces)
    /\ split = None
    /\ NoChunks

Split ==
    /\ split = None
    /\ split' = Some(_split_thinking(raw))
    /\ UNCHANGED << pieces, raw, svars, cvars >>

SplitNext == Split

SplitSpec == SplitInit /\ [][SplitNext]_vars

\* ------------------------------------------------------------------ ChunkSpec
\* The chunking of process_ingest, applied to texts of up to MaxParagraphs
\* paragraphs: paragraphs shorter than chunk_size, and one longer than it that holds
\* no separator.
Paragraph == {"a", "b", "c", "d"}

ParagraphText(p) ==
    CASE p = "a" -> Rep("a", 240)
      [] p = "b" -> Rep("b", 40)
      [] p = "c" -> Rep("c", 260)
      [] p = "d" -> Rep("d", 600)

Texts == UNION {[1..n -> Paragraph] : n \in 0..MaxParagraphs}

ChunkInit ==
    /\ ServiceInit
    /\ NoSplit
    /\ paragraphs \in Texts
    /\ source_text = join(NL2, [i \in 1..Len(paragraphs) |-> ParagraphText(paragraphs[i])])
    /\ chunks = None

\* docs = [Document(page_content=x) for x in text_splitter.split_text(text)]
Chunk ==
    /\ chunks = None
    /\ chunks' = Some(Documents(source_text))
    /\ UNCHANGED << paragraphs, source_text, svars, pvars >>

ChunkNext == Chunk

ChunkSpec == ChunkInit /\ [][ChunkNext]_vars

\* ------------------------------------------------------------------ the splitter's claims
\* The text without its leading and trailing whitespace, said with positions.
Trimmed(s) ==
    LET I == {i \in 1..Len(s) : ~IsSpace(s[i])}
    IN  IF I = {} THEN << >> ELSE SubSeq(s, SetMin(I), SetMax(I))

\* How often the literal m occurs in s.
Occurrences(s, m) == Cardinality({i \in 1..Len(s) : LiteralAt(s, m, i)})

\* The two-state scanner over the pieces of a raw output (outside / inside a block).
\* Outside, an open marker that a close marker follows starts a region; any other
\* piece is literal text. Inside, the first close marker ends the region; any other
\* piece, an open marker too, is the region's content.
\* regions: the contents in order; rest: the text outside; litO, litC: the open and
\* close markers left outside; inO: the open markers inside a region.
RECURSIVE Scan(_, _, _, _)
Scan(ps, i, inside, acc) ==
    IF i > Len(ps) THEN acc
    ELSE IF inside
    THEN IF ps[i] = "C"
         THEN Scan(ps, i + 1, FALSE, acc)
         ELSE Scan(ps, i + 1, TRUE,
                   [acc EXCEPT !.regions[Len(acc.regions)] = @ \o Spell(ps[i]),
                               !.inO = @ + (IF ps[i] = "O" THEN 1 ELSE 0)])
    ELSE IF ps[i] = "O" /\ \E j \in (i + 1)..Len(ps) : ps[j] = "C"
         THEN Scan(ps, i + 1, TRUE, [acc EXCEPT !.regions = Append(@, << >>)])
         ELSE Scan(ps, i + 1, FALSE,
                   [acc EXCEPT !.rest = @ \o Spell(ps[i]),
                               !.litO = @ + (IF ps[i] = "O" THEN 1 ELSE 0),
                               !.litC = @ + (IF ps[i] = "C" THEN 1 ELSE 0)])

Scanned(ps) ==
    Scan(ps, 1, FALSE, [regions |-> << >>, rest |-> << >>, litO |-> 0, litC |-> 0, inO |-> 0])

\* C7: when the raw output holds one or more well-formed <think>...</think> regions,
\* thinking is the regions' contents, each trimmed, joined by a blank line in order of
\* appearance, and answer is raw without the regions and their markers, trimmed.
C7_RegionsExtracted ==
    split # None =>
        LET sc == Scanned(pieces)
        IN  sc.regions # << >> =>
              /\ split[1].thinking
                   = Some(join(NL2, [i \in 1..Len(sc.regions) |-> Trimmed(sc.regions[i])]))
              /\ split[1].answer = Trimmed(sc.rest)

\* Two regions with different contents around a non-empty answer have been split.
C7_Witness ==
    /\ split # None
    /\ pieces = << "O", "a", "C", "b", "O", "C" >>
    /\ split[1].thinking = Some(<< "a", "\n", "\n" >>)
    /\ split[1].answer = << "b" >>

\* C8 as stated: every marker that is not one of the two markers of an extracted
\* pair stays verbatim in the answer, and without a well-formed pair the result is
\* answer = trim(raw), thinking = null.
C8_UnmatchedMarkersInAnswer ==
    split # None =>
        LET sc == Scanned(pieces)
        IN  /\ Occurrences(split[1].answer, OpenMarker) = sc.litO + sc.inO
            /\ Occurrences(split[1].answer, CloseMarker) = sc.litC
            /\ sc.regions = << >> =>
                 (split[1].answer = Trimmed(raw) /\ split[1].thinking = None)

\* C8, amended: an unmatched marker outside every extracted region stays verbatim in
\* the answer; an open marker inside an extracted region stays verbatim in the
\* thinking; without a well-formed pair the result is answer = trim(raw),
\* thinking = null.
C8_UnmatchedMarkersLiteral ==
    split # None =>
        LET sc == Scanned(pieces)
        IN  /\ Occurrences(split[1].answer, OpenMarker) = sc.litO
            /\ Occurrences(split[1].answer, CloseMarker) = sc.litC
            /\ sc.regions # << >> =>
                 Occurrences(split[1].thinking[1], OpenMarker) = sc.inO
            /\ sc.regions = << >> =>
                 (split[1].answer = Trimmed(raw) /\ split[1].thinking = None)

\* A reversed pair before a well-formed one, and an open marker inside the region:
\* the stray close and open markers stay in the answer, the inner one in the thinking.
C8_Witness ==
    /\ split # None
    /\ pieces = << "C", "O", "O", "a", "C", "O" >>
    /\ split[1].answer = CloseMarker \o OpenMarker
    /\ split[1].thinking = Some(OpenMarker \o << "a" >>)

\* ------------------------------------------------------------------ the service's claims
SkipMessage(i) == [job |-> i, n |-> 0, msg |-> "Ingest skipped: vectorstore is not initialized."]

\* C1: a query that arrives while the Index or the chain is not initialised ends at
\* once with 503 "DB is not ready.", and neither retrieval nor the model is invoked.
C1_NotReadyQuery ==
    \A q \in QueryIds :
        (queries[q].pc # "idle" /\ ~queries[q].ready) =>
            /\ queries[q].pc = "done"
            /\ queries[q].resp = Some(HTTPException(503, NotReadyDetail))
            /\ queries[q].nsearch = 0
            /\ queries[q].nllm = 0

\* Startup assigned the Index and failed before it assigned the chain; a query got
\* its 503 without a search or a model call.
C1_Witness ==
    \E q \in QueryIds :
        /\ queries[q].pc = "done"
        /\ ~queries[q].ready
        /\ lifespan_pc = "failed" /\ vectorstore # None /\ qa_chain = None
        /\ queries[q].resp[1].status_code = 503
        /\ queries[q].nsearch = 0

\* C2: an ingest job that runs while the Index is uninitialised is a no-op: its
\* request was answered "accepted", it makes no add_documents call, it prints the
\* skip, and no exception leaves it.
C2_SkippedIngest ==
    \A i \in IngestIds :
        (jobs[i].pc \notin {"none", "queued"} /\ ~jobs[i].ready) =>
            /\ jobs[i].pc = "skipped"
            /\ ingests[i].resp = Some(Accepted)
            /\ jobs[i].calls = << >>
            /\ jobs[i].exc = None
            /\ \E n \in 1..Len(out) : out[n] = SkipMessage(i)

\* A job was skipped, and the Index was created afterwards and is still empty.
C2_Witness ==
    \E i \in IngestIds :
        /\ jobs[i].pc = "skipped"
        /\ jobs[i].text # << >>
        /\ vectorstore # None
        /\ index = EmptyBag

\* C3: the "accepted" response of an ingest request is produced without waiting for
\* the job: whenever the job has started (and so whenever it has called
\* add_documents), the response has been sent, and it is "accepted" whatever the
\* state of the job.
C3_AcceptedBeforeWork ==
    \A i \in IngestIds :
        /\ jobs[i].pc # "none" => ingests[i].resp = Some(Accepted)
        /\ (jobs[i].pc \notin {"none", "queued"} \/ jobs[i].calls # << >>) =>
              ingests[i].pc = "responded"

\* A file request and a JSON request were both accepted; one job stored passages,
\* the other raised.
C3_Witness ==
    \E i, j \in IngestIds :
        /\ ingests[i].kind = "file" /\ jobs[i].pc = "done" /\ jobs[i].calls[1].docs # << >>
        /\ ingests[j].kind = "json" /\ jobs[j].pc = "raised"
        /\ ingests[i].resp = Some(Accepted) /\ ingests[j].resp = Some(Accepted)

Responses == << [i \in IngestIds |-> ingests[i].resp], [q \in QueryIds |-> queries[q].resp] >>

\* C4: a failure inside an ingestion job stays in the task: add_documents is not
\* called again, the exception leaves process_ingest unswallowed (the task ends
\* "raised" with it, nothing is printed as added), and the step in which it is
\* raised changes no response of any request.
C4_FailureContained ==
    /\ [](\A i \in IngestIds :
            (\E n \in 1..Len(jobs[i].calls) : ~jobs[i].calls[n].ok) =>
                /\ jobs[i].pc = "raised"
                /\ jobs[i].exc # None
                /\ Len(jobs[i].calls) = 1
                /\ ingests[i].resp = Some(Accepted)
                /\ \A n \in 1..Len(out) : out[n].job # i)
    /\ [][(\E i \in IngestIds : jobs[i].pc # "raised" /\ jobs'[i].pc = "raised")
            => Responses' = Responses]_vars

\* A job raised, and a query has been answered 200.
C4_Witness ==
    \E i \in IngestIds, q \in QueryIds :
        /\ jobs[i].pc = "raised"
        /\ jobs[i].exc = Some("UpsertError")
        /\ ~jobs[i].calls[1].ok
        /\ queries[q].pc = "done"
        /\ queries[q].resp[1].status_code = 200

\* The passages of every job whose add_documents returned, as one bag.
RECURSIVE StoredBy(_)
StoredBy(I) ==
    IF I = {} THEN EmptyBag
    ELSE LET i == CHOOSE x \in I : TRUE
         IN  BagOfSeq(split_text(jobs[i].text)) (+) StoredBy(I \ {i})

\* C5: concurrent ingest jobs lose no updates: the Index holds exactly the passages
\* of the jobs whose upsert has completed, each as often as it was upserted; so it
\* does once all jobs have completed.
C5_NoLostUpdates == index = StoredBy(DoneJobs)

\* Two jobs with different texts both stored passages, the later request's job first.
C5_Witness ==
    /\ \A i \in {1, 2} : jobs[i].pc = "done" /\ jobs[i].calls[1].docs # << >>
    /\ jobs[1].text # jobs[2].text
    /\ out[Len(out) - 1].job = 2
    /\ out[Len(out)].job = 1

\* c occurs in s.
Contains(s, c) == \E i \in 1..(Len(s) - Len(c) + 1) : LiteralAt(s, c, i)

\* c is the one nearest passage of the Index idx to the question.
Nearest(idx, question, c) ==
    /\ c \in BagToSet(idx)
    /\ \A p \in BagToSet(idx) : p # c => Score(question, c) > Score(question, p)

\* C6: a passage whose upsert completed before a query arrived is eligible for that
\* query: if it is the nearest passage of the Index the query searches, its content
\* is in the context assembled for the query.
C6_UpsertedIsRetrievable ==
    \A q \in QueryIds : \A i \in queries[q].seen :
        queries[q].nsearch > 0 /\ queries[q].fail = None =>
            \A n \in 1..Len(split_text(jobs[i].text)) :
                LET c == split_text(jobs[i].text)[n]
                IN  /\ c \in BagToSet(queries[q].snap)
                    /\ Nearest(queries[q].snap, queries[q].question, c) =>
                          /\ queries[q].docs # << >>
                          /\ queries[q].docs[1] = c
                          /\ Contains(_format_docs(queries[q].docs), c)

\* A query that arrived after a four-chunk job had completed retrieved three of the
\* four passages, the nearest of them the job's third chunk (stored twice).
C6_Witness ==
    \E q \in QueryIds : \E i \in queries[q].seen :
        /\ queries[q].pc = "retrieved"
        /\ Len(queries[q].docs) = 3
        /\ Len(split_text(jobs[i].text)) = 4
        /\ Nearest(queries[q].snap, queries[q].question, split_text(jobs[i].text)[3])
        /\ queries[q].docs[1] = split_text(jobs[i].text)[3]

\* What the caller can tell from the response alone.
CallerCondition(resp) ==
    CASE resp.status_code = 200 -> "Answer"
      [] resp.status_code = 404 -> "UpstreamModelMissing"
      [] resp.status_code = 502 -> "UpstreamModelError"
      [] resp.status_code = 503 /\ resp.detail = NotReadyDetail -> "NotReady"
      [] resp.status_code = 503 /\ resp.detail # NotReadyDetail -> "UpstreamUnreachable"
      [] OTHER -> "ServerError"

\* What went wrong in a query, by its cause.
Cause(fail) ==
    IF fail = None THEN "Answer"
    ELSE IF fail[1].type = "NotReady" THEN "NotReady"
    ELSE IF fail[1].type = "ResponseError"
         THEN IF fail[1].status_code = 404 THEN "UpstreamModelMissing"
              ELSE "UpstreamModelError"
    ELSE IF fail[1].type = "ConnectionError" THEN "UpstreamUnreachable"
    ELSE "ServerError"

\* C9: a model-not-found failure (upstream 404) reaches the caller as 404, any other
\* ResponseError as 502, an unreachable model service as 503 with its own detail, an
\* uninitialised service as 503 "DB is not ready."; the caller can tell the four
\* apart from the response alone, and no failure comes with an answer. (An exception
\* of any other type leaves the handler: the server's 500, apart from the four.)
C9_FailuresDistinguished ==
    \A q \in QueryIds :
        queries[q].pc = "done" =>
            /\ CallerCondition(queries[q].resp[1]) = Cause(queries[q].fail)
            /\ queries[q].fail # None =>
                 /\ queries[q].resp[1].answer = None
                 /\ queries[q].resp[1].thinking = None
                 /\ queries[q].resp[1].status_code \in {404, 502, 503, 500}
            /\ (queries[q].fail # None /\ queries[q].fail[1].type = "ResponseError")
                 => queries[q].resp[1].detail = queries[q].fail[1].error

\* The model step of a query raised ResponseError with a status other than 404
\* after retrieval had succeeded.
C9_Witness ==
    \E q \in QueryIds :
        /\ queries[q].pc = "done"
        /\ queries[q].nllm = 1
        /\ queries[q].fail # None
        /\ queries[q].resp[1].status_code = 502

\* C10: an ingest job that runs with an initialised Index calls add_documents
\* exactly once, with one passage per chunk of its text in chunk order, for the
\* empty text too (an empty batch); before the call it has made none.
C10_OneBatch ==
    \A i \in IngestIds :
        /\ jobs[i].pc \in {"done", "raised"} =>
              /\ Len(jobs[i].calls) = 1
              /\ jobs[i].calls[1].docs = split_text(jobs[i].text)
        /\ jobs[i].pc \in {"none", "queued", "running", "skipped"} => jobs[i].calls = << >>

\* One job upserted the four chunks of its text in one call, another the empty batch
\* of the empty text.
C10_Witness ==
    \E i, j \in IngestIds :
        /\ jobs[i].pc = "done" /\ Len(jobs[i].calls[1].docs) = 4 /\ Len(jobs[i].calls) = 1
        /\ jobs[j].pc = "done" /\ jobs[j].text = << >> /\ jobs[j].calls[1].docs = << >>

\* Where passage i of docs starts in the context block, counted from 0.
RECURSIVE Offset(_, _)
Offset(docs, i) ==
    IF i = 1 THEN 0 ELSE Offset(docs, i - 1) + Len(docs[i - 1]) + 2

\* C11: the context block of a query holds the retrieved passages, at most k, each
\* verbatim at its place in the retrieved order (the order of the retriever's
\* ranking of the Index the query saw), a blank line ("\n\n") between two neighbours
\* and nothing else: a passage retrieved twice is there twice, one passage alone is
\* the whole block, and no passage gives the empty block.
C11_ContextInRetrievedOrder ==
    \A q \in QueryIds :
        queries[q].context # None =>
            LET docs == queries[q].docs
                ctx == queries[q].context[1]
                n == Len(docs)
            IN  /\ n <= k
                /\ docs = retrieve(queries[q].snap, queries[q].question)
                /\ n = 0 => ctx = << >>
                /\ n = 1 => ctx = docs[1]
                /\ n > 0 => Len(ctx) = Offset(docs, n) + Len(docs[n])
                /\ \A i \in 1..n :
                      /\ SubSeq(ctx, Offset(docs, i) + 1, Offset(docs, i) + Len(docs[i]))
                            = docs[i]
                      /\ i < n =>
                            /\ ctx[Offset(docs, i) + Len(docs[i]) + 1] = "\n"
                            /\ ctx[Offset(docs, i) + Len(docs[i]) + 2] = "\n"

\* A query retrieved k passages, the first two of them equal, and its context block
\* holds that passage twice.
C11_Witness ==
    \E q \in QueryIds :
        /\ queries[q].context # None
        /\ Len(queries[q].docs) = k
        /\ queries[q].docs[1] = queries[q].docs[2]
        /\ queries[q].docs[3] # queries[q].docs[1]
        /\ Len(queries[q].context[1])
             = 2 * Len(queries[q].docs[1]) + Len(queries[q].docs[3]) + 4

\* C12: a query whose retrieval succeeded with no passage goes on: its context
\* block is the empty string, and once it has ended the model has been invoked, once,
\* with that empty context and the question; unless the model call itself failed
\* the caller has status 200 and an answer. No response says "nothing found".
C12_EmptyRetrievalProceeds ==
    \A q \in QueryIds :
        LET qr == queries[q]
        IN  (/\ qr.nsearch = 1
             /\ retrieve(qr.snap, qr.question) = << >>
             /\ qr.fail = None \/ qr.nllm = 1) =>
                /\ qr.pc \in {"retrieved", "done"}
                /\ qr.context = Some(<< >>)
                /\ qr.pc = "done" =>
                      /\ qr.nllm = 1
                      /\ qr.prompt = Some([context |-> << >>, question |-> qr.question])
                      /\ qr.fail = None =>
                            /\ qr.resp[1].status_code = 200
                            /\ qr.resp[1].answer # None

\* A query that found the Index empty got an answer made with the empty context.
C12_Witness ==
    \E q \in QueryIds :
        /\ queries[q].pc = "done"
        /\ queries[q].nsearch = 1
        /\ queries[q].snap = EmptyBag
        /\ queries[q].docs = << >>
        /\ queries[q].prompt = Some([context |-> << >>, question |-> queries[q].question])
        /\ queries[q].resp[1].status_code = 200
        /\ queries[q].resp[1].answer # None

\* C13: every chunk process_ingest makes of a text, and so every chunk it upserts,
\* is at most chunk_size characters long, whatever the text, a text with no
\* separator included.
C13_ChunksWithinSize ==
    chunks # None => \A i \in 1..Len(chunks[1]) : Len(chunks[1][i]) <= chunk_size

\* A text of one paragraph of 600 characters, with no separator in it, was made
\* into one chunk of 600 characters.
C13_Witness ==
    /\ paragraphs = << "d" >>
    /\ ~ Contains(source_text, NL2)
    /\ chunks = Some(<< source_text >>)
    /\ Len(source_text) = 600

\* C14: Index and chain are created once, at startup, and stay: the lifespan goes
\* through its two assignments once and never back, an initialised global is never
\* changed by any step, a global changes only in the lifespan step that assigns it,
\* and once startup has completed both are initialised, no query is answered
\* "DB is not ready." and no ingest job is skipped.
C14_InitialisedOnceForGood ==
    /\ [](lifespan_pc = "serving" => vectorstore # None /\ qa_chain # None)
    /\ [][/\ vectorstore # None => vectorstore' = vectorstore
          /\ qa_chain # None => qa_chain' = qa_chain
          /\ vectorstore' # vectorstore => lifespan_pc = "start" /\ lifespan_pc' = "vs"
          /\ qa_chain' # qa_chain => lifespan_pc = "vs" /\ lifespan_pc' = "serving"
          /\ lifespan_pc' = "start" => lifespan_pc = "start"
          /\ lifespan_pc' = "vs" => lifespan_pc \in {"start", "vs"}
          /\ lifespan_pc = "serving" =>
                /\ lifespan_pc' = "serving"
                /\ \A q \in QueryIds :
                      queries'[q] # queries[q] =>
                          /\ queries'[q].ready
                          /\ queries'[q].fail # Some(Raised("NotReady"))
                /\ \A i \in IngestIds :
                      jobs'[i].pc = "skipped" => jobs[i].pc = "skipped"]_vars

\* After startup had completed a query was answered 200 and an ingest job, checked
\* against the initialised Index, upserted its chunks.
C14_Witness ==
    /\ lifespan_pc = "serving"
    /\ \E q \in QueryIds :
           queries[q].pc = "done" /\ queries[q].ready /\ queries[q].resp[1].status_code = 200
    /\ \E i \in IngestIds :
           jobs[i].pc = "done" /\ jobs[i].ready /\ Len(jobs[i].calls) = 1

\* C15: a query invokes the retriever and the model at most once each; a query
\* that has not ended, or was turned away at the readiness check, or whose retrieval
\* failed, has not invoked the model; one that ended after its retrieval succeeded
\* has invoked it exactly once, also when that call failed (no retry); and the
\* splitter has run only on what a successful call returned: a 200 response carries
\* _split_thinking of a model output, a failed query carries no answer and no thinking.
C15_ModelCalledOnce ==
    \A q \in QueryIds :
        LET qr == queries[q]
        IN  /\ qr.nllm <= 1
            /\ qr.nsearch <= 1
            /\ qr.pc \in {"idle", "invoked", "retrieved"} => qr.nllm = 0 /\ qr.resp = None
            /\ qr.fail = Some(Raised("NotReady")) => qr.nsearch = 0 /\ qr.nllm = 0
            /\ (qr.pc = "done" /\ qr.context = None) => qr.nllm = 0
            /\ (qr.pc = "done" /\ qr.context # None) => qr.nllm = 1 /\ qr.nsearch = 1
            /\ (qr.pc = "done" /\ qr.fail # None) =>
                  qr.resp[1].answer = None /\ qr.resp[1].thinking = None
            /\ (qr.pc = "done" /\ qr.fail = None) =>
                  /\ qr.nllm = 1
                  /\ \E o \in ModelOutputs :
                        qr.resp[1] = QueryResponse(_split_thinking(o).answer,
                                                   _split_thinking(o).thinking)

\* The model call of a query failed with ConnectionError after its retrieval had
\* succeeded: one call, no answer.
C15_Witness ==
    \E q \in QueryIds :
        /\ queries[q].pc = "done"
        /\ queries[q].context # None
        /\ queries[q].nllm = 1
        /\ queries[q].fail # None
        /\ queries[q].fail[1].type = "ConnectionError"
        /\ queries[q].resp[1].answer = None

\* C16: whenever the chain is initialised the Index is initialised too, so a query
\* that got past the readiness check, which looks at the chain only, found the
\* Index initialised: every query that went on to the chain arrived with both.
C16_ChainImpliesIndex ==
    /\ qa_chain # None => vectorstore # None
    /\ \A q \in QueryIds :
          (queries[q].pc \in {"invoked", "retrieved"} \/ queries[q].nsearch > 0) =>
              queries[q].ready

\* One query was turned away before the chain was assigned; another, after it had
\* been assigned, went on to retrieval.
C16_Witness ==
    \E q, r \in QueryIds :
        /\ queries[q].fail = Some(Raised("NotReady"))
        /\ queries[r].nsearch = 1
        /\ queries[r].ready
        /\ qa_chain # None
        /\ vectorstore # None

\* C17: a query never changes the Index: every step that changes a query leaves the
\* Index as it was, and every step that changes the Index is the upsert of one
\* running ingestion job, which adds that job's passages.
C17_OnlyIngestWrites ==
    [][/\ queries' # queries => index' = index
       /\ index' # index =>
             \E i \in IngestIds :
                 /\ jobs[i].pc = "running"
                 /\ jobs'[i].pc = "done"
                 /\ Len(jobs'[i].calls) = Len(jobs[i].calls) + 1
                 /\ index' = index (+) BagOfSeq(jobs'[i].calls[1].docs)]_vars

\* A query searched an Index that held passages and was answered, and the Index is
\* still what the query saw.
C17_Witness ==
    \E q \in QueryIds :
        /\ queries[q].pc = "done"
        /\ queries[q].nsearch = 1
        /\ queries[q].nllm = 1
        /\ queries[q].snap # EmptyBag
        /\ queries[q].docs # << >>
        /\ index = queries[q].snap

\* C18: a file request whose content is not well-formed UTF-8 (a byte that no UTF-8
\* text holds, a sequence cut short, ...) is answered 400 "File must be UTF-8
\* encoded text.", has no job, ever, and the step that answers it changes neither
\* the jobs nor the Index; a file request whose content is well-formed is accepted
\* and has its one job, which carries the decoded characters.
C18_UndecodableFileRejected ==
    /\ [](\A i \in IngestIds :
            ingests[i].kind = "file" =>
                LET c == ingests[i].content[1]
                IN  /\ IF WellFormed(c, 1)
                       THEN /\ ingests[i].resp = Some(Accepted)
                            /\ jobs[i].pc # "none"
                            /\ jobs[i].text = Characters(c, 1)
                       ELSE /\ ingests[i].resp = Some(BadFile)
                            /\ jobs[i] = NoJob
                    /\ (\/ \E n \in 1..Len(c) : c[n] = 255
                        \/ (c # << >> /\ c[Len(c)] >= 192))
                          => ingests[i].resp = Some(BadFile) /\ jobs[i] = NoJob
                    /\ c = << 97, 195, 169, 10, 10, 98 >>
                          => jobs[i].text = << "a", "U+00E9", "\n", "\n", "b" >>)
    /\ [][\A i \in IngestIds :
            (ingests[i].pc = "idle" /\ ingests'[i].resp = Some(BadFile))
                => jobs' = jobs /\ index' = index]_vars

\* A file cut short inside a two-byte character was answered 400 and has no job;
\* a file with a two-byte character was accepted and its job upserted the decoded
\* text; the Index holds that text only.
C18_Witness ==
    \E i, j \in IngestIds :
        /\ ingests[i].content = Some(<< 97, 195 >>)
        /\ ingests[i].resp = Some(BadFile)
        /\ jobs[i] = NoJob
        /\ ingests[j].content = Some(<< 97, 195, 169, 10, 10, 98 >>)
        /\ ingests[j].resp = Some(Accepted)
        /\ jobs[j].pc = "done"
        /\ jobs[j].calls = << [docs |-> << << "a", "U+00E9", "\n", "\n", "b" >> >>, ok |-> TRUE] >>
        /\ index = SetToBag({<< "a", "U+00E9", "\n", "\n", "b" >>})

====
